---- MODULE Spec2Model ----
(***************************************************************************)
(* gpx2video: the command line front end (src/main.cpp), the GPX latitude  *)
(* validator (gpxlib/Latitude.cpp) and the time widget (widgets/time.h).   *)
(*                                                                         *)
(* Three specifications share the variables:                               *)
(*   Spec      one run of main(): parseCommandLine, the command switch,    *)
(*             the event loop and the teardown at the exit label;          *)
(*   SpecLat   Latitude::validate on one node;                             *)
(*   SpecTime  TimeWidget::render driven frame by frame.                   *)
(***************************************************************************)
EXTENDS Integers, Sequences, FiniteSets, TLC

\* ------------------------------------------------------------------ bounds
\* argv elements getopt_long may consume in one run
MaxArgs == 5
\* non-option words kept in argv after getopt's permutation
MaxWords == 2
\* latitude values range over -MaxLat..MaxLat, in tenths of a degree
MaxLat == 905
\* clock ticks of the application (camera) clock during one render session
MaxTicks == 3
\* frames rendered during one render session
MaxFrames == 3

\* -------------------------------------------------------- program constants
\* int map_zoom = 12
DefaultMapZoom == 12
\* int max_duration_ms = 0
DefaultDuration == 0
\* double map_factor = 1.0, in tenths
DefaultMapFactor == 10
\* EXIT_SUCCESS
EXIT_SUCCESS == 0
\* the latitude range of Latitude::validate, in tenths of a degree
LatMin == -900
LatMax == 900

NULL == "NULL"
NoResult == "none"

\* GPX2Video::Command
CommandSource == "CommandSource"
CommandSync   == "CommandSync"
CommandClear  == "CommandClear"
CommandMap    == "CommandMap"
CommandTrack  == "CommandTrack"
CommandVideo  == "CommandVideo"
\* the value of command_ after construction, which main never reads
CommandConstructed == "constructed"
Commands == {CommandSource, CommandSync, CommandClear, CommandMap, CommandTrack, CommandVideo}

\* the five command words of print_usage, and one word that is none of them
CommandWords == {"sync", "clear", "map", "track", "video"}
Words == CommandWords \cup {"other"}

\* option arguments the user may give (one value besides each default)
Files       == {"file"}
ZoomArgs    == {15}
FactorArgs  == {20}
DurationArgs == {1000}
SourceArgs  == {"SourceOther"}
DefaultMapSource == "SourceOpenStreetMap"

\* the settings object before setSettings is called
NoSettings == [set |-> FALSE]

Tasks == {"timesync", "map", "renderer"}
TileKeys == {"A/12/3/4", "A/12/3/5"}

VARIABLES
    \* ---- main() and GPX2Video::parseCommandLine
    pc,            \* position in main / parseCommandLine
    nargs,         \* argv elements consumed by getopt_long so far
    option,        \* last value returned by getopt_long
    verbose, map_zoom, max_duration_ms, map_factor, map_source,
    gpxfile, mediafile, outputfile,
    words,         \* argv + optind: the non-option words, in order
    result,        \* main's result = app.parseCommandLine(...)
    command_,      \* GPX2Video::command_
    settings_,     \* GPX2Video settings
    nSetCommand,   \* calls of setCommand
    nSetSettings,  \* calls of setSettings
    stdout,        \* messages written to std::cout / the log
    ptr,           \* main's Map *map, Renderer *renderer, TimeSync *timesync
    heap,          \* the objects behind them: "none", "live", "deleted"
    deletes,       \* delete expressions executed per object
    rendererMap,   \* the Map the live Renderer was created from
    tasks,         \* app.append(...) calls, in order
    evbase,        \* the event base
    execRan,       \* app.exec() was entered
    exitStatus,    \* argument of exit()
    cache,         \* the on-disk tile store
    fetches,       \* external tile fetches
    \* ---- Latitude::validate
    latPc, latDecimalOk, latConvertOk, latValue, latHasReport, latOk, latReports,
    \* ---- TimeWidget::render
    appTime, tzOffset, geom, ticks, frames, buf, shown

parseLocals == <<nargs, option, verbose, map_zoom, max_duration_ms, map_factor,
                 map_source, gpxfile, mediafile, outputfile, words>>
appVars     == <<command_, settings_, nSetCommand, nSetSettings>>
taskVars    == <<ptr, heap, deletes, rendererMap, tasks>>
cacheVars   == <<cache, fetches>>
mainVars    == <<pc, parseLocals, result, appVars, stdout, taskVars, evbase,
                 execRan, exitStatus, cacheVars>>
latVars     == <<latPc, latDecimalOk, latConvertOk, latValue, latHasReport, latOk, latReports>>
timeVars    == <<appTime, tzOffset, geom, ticks, frames, buf, shown>>
vars        == <<mainVars, latVars, timeVars>>

\* ------------------------------------------------------------ initial state
MainStart(c, k) ==
    /\ pc = "getopt"
    /\ nargs = 0
    /\ option = "0"
    /\ verbose = 0
    /\ map_zoom = DefaultMapZoom
    /\ max_duration_ms = DefaultDuration
    /\ map_factor = DefaultMapFactor
    /\ map_source = DefaultMapSource
    /\ gpxfile = NULL /\ mediafile = NULL /\ outputfile = NULL
    /\ words = <<>>
    /\ result = NoResult
    /\ command_ = c
    /\ settings_ = NoSettings
    /\ nSetCommand = 0 /\ nSetSettings = 0
    /\ stdout = <<>>
    /\ ptr = [t \in Tasks |-> FALSE]
    /\ heap = [t \in Tasks |-> "none"]
    /\ deletes = [t \in Tasks |-> 0]
    /\ rendererMap = NULL
    /\ tasks = <<>>
    /\ evbase = "live"
    /\ execRan = FALSE
    /\ exitStatus = NoResult
    /\ cache = k
    /\ fetches = 0

\* command_ is whatever the constructor left (never read before setCommand);
\* the tile store is whatever earlier runs left on disk
MainInit == \E k \in SUBSET TileKeys : MainStart(CommandConstructed, k)

LatIdle ==
    /\ latPc = "idle" /\ latDecimalOk = FALSE /\ latConvertOk = FALSE
    /\ latValue = 0 /\ latHasReport = FALSE /\ latOk = FALSE /\ latReports = 0

TimeIdle ==
    /\ appTime = 0 /\ tzOffset = 0
    /\ geom = [x |-> 0, y |-> 0, height |-> 0, padding |-> 0, label |-> ""]
    /\ ticks = 0 /\ frames = 0 /\ buf = <<>> /\ shown = {}

Init == MainInit /\ LatIdle /\ TimeIdle

\* parseCommandLine has returned; result is an int from then on
Parsed      == pc # "getopt"
ParseOk     == Parsed /\ result = 0
ParseFailed == Parsed /\ result < 0

\* ------------------------------------------------- GPX2Video::parseCommandLine
\* setCommand / setSettings and the return statement, as state updates
Return(r) == /\ result' = r
             /\ pc' = "parsed"

SetCommand(c) == /\ command_' = c
                 /\ nSetCommand' = nSetCommand + 1

Say(m) == stdout' = Append(stdout, m)

\* what parseCommandLine leaves alone: main's tasks, the event base, the tile
\* store, and the other components
ParseFrame == UNCHANGED <<taskVars, evbase, execRan, exitStatus, cacheVars, latVars, timeVars>>

\* one getopt_long call that returns an option character; the option and its
\* argument (when it takes one) are one or two elements of argv
InLoop == pc = "getopt" /\ nargs < MaxArgs

\* getopt_long permutes argv: a non-option word is skipped and ends up after
\* optind. Only argv[0] is ever compared, so the words after the first are
\* drawn from one value.
GetoptSkipWord ==
    /\ ParseFrame
    /\ InLoop
    /\ Len(words) < MaxWords
    /\ \E w \in (IF words = <<>> THEN Words ELSE {"other"}) : words' = Append(words, w)
    /\ nargs' = nargs + 1
    /\ UNCHANGED <<pc, option, verbose, map_zoom, max_duration_ms, map_factor, map_source,
                   gpxfile, mediafile, outputfile, result, appVars, stdout>>

\* case 'h'
OptHelp ==
    /\ ParseFrame
    /\ InLoop
    /\ option' = "h"
    /\ nargs' = nargs + 1
    /\ Return(-1)
    /\ UNCHANGED <<verbose, map_zoom, max_duration_ms, map_factor, map_source,
                   gpxfile, mediafile, outputfile, words, appVars, stdout>>

\* case 'l'
OptMapList ==
    /\ ParseFrame
    /\ InLoop
    /\ option' = "l"
    /\ nargs' = nargs + 1
    /\ SetCommand(CommandSource)
    /\ Return(0)
    /\ UNCHANGED <<verbose, map_zoom, max_duration_ms, map_factor, map_source,
                   gpxfile, mediafile, outputfile, words, settings_, nSetSettings, stdout>>

\* case 'f', 'z', 's', 'd': the value options
OptMapFactor ==
    /\ ParseFrame
    /\ InLoop
    /\ option' = "f"
    /\ nargs' = nargs + 1
    /\ \E a \in FactorArgs : map_factor' = a
    /\ UNCHANGED <<pc, verbose, map_zoom, max_duration_ms, map_source,
                   gpxfile, mediafile, outputfile, words, result, appVars, stdout>>

OptMapZoom ==
    /\ ParseFrame
    /\ InLoop
    /\ option' = "z"
    /\ nargs' = nargs + 1
    /\ \E a \in ZoomArgs : map_zoom' = a
    /\ UNCHANGED <<pc, verbose, max_duration_ms, map_factor, map_source,
                   gpxfile, mediafile, outputfile, words, result, appVars, stdout>>

OptMapSource ==
    /\ ParseFrame
    /\ InLoop
    /\ option' = "s"
    /\ nargs' = nargs + 1
    /\ \E a \in SourceArgs : map_source' = a
    /\ UNCHANGED <<pc, verbose, map_zoom, max_duration_ms, map_factor,
                   gpxfile, mediafile, outputfile, words, result, appVars, stdout>>

OptDuration ==
    /\ ParseFrame
    /\ InLoop
    /\ option' = "d"
    /\ nargs' = nargs + 1
    /\ \E a \in DurationArgs : max_duration_ms' = a
    /\ UNCHANGED <<pc, verbose, map_zoom, map_factor, map_source,
                   gpxfile, mediafile, outputfile, words, result, appVars, stdout>>

\* case 'q'
OptQuiet ==
    /\ ParseFrame
    /\ InLoop
    /\ option' = "q"
    /\ nargs' = nargs + 1
    /\ UNCHANGED <<pc, verbose, map_zoom, max_duration_ms, map_factor, map_source,
                   gpxfile, mediafile, outputfile, words, result, appVars, stdout>>

\* case 'v'
OptVerbose ==
    /\ ParseFrame
    /\ InLoop
    /\ option' = "v"
    /\ nargs' = nargs + 1
    /\ verbose' = verbose + 1
    /\ UNCHANGED <<pc, map_zoom, max_duration_ms, map_factor, map_source,
                   gpxfile, mediafile, outputfile, words, result, appVars, stdout>>

\* case 'm'
OptMedia ==
    /\ ParseFrame
    /\ InLoop
    /\ option' = "m"
    /\ nargs' = nargs + 1
    /\ IF mediafile # NULL
         THEN /\ Say("'media' option is already set!")
              /\ Return(-1)
              /\ UNCHANGED mediafile
         ELSE /\ \E f \in Files : mediafile' = f
              /\ UNCHANGED <<pc, result, stdout>>
    /\ UNCHANGED <<verbose, map_zoom, max_duration_ms, map_factor, map_source,
                   gpxfile, outputfile, words, appVars>>

\* case 'g'
OptGpx ==
    /\ ParseFrame
    /\ InLoop
    /\ option' = "g"
    /\ nargs' = nargs + 1
    /\ IF gpxfile # NULL
         THEN /\ Say("'gpx' option is already set!")
              /\ Return(-1)
              /\ UNCHANGED gpxfile
         ELSE /\ \E f \in Files : gpxfile' = f
              /\ UNCHANGED <<pc, result, stdout>>
    /\ UNCHANGED <<verbose, map_zoom, max_duration_ms, map_factor, map_source,
                   mediafile, outputfile, words, appVars>>

\* case 'o'
OptOutput ==
    /\ ParseFrame
    /\ InLoop
    /\ option' = "o"
    /\ nargs' = nargs + 1
    /\ IF outputfile # NULL
         THEN /\ Say("'output' option is already set!")
              /\ Return(-1)
              /\ UNCHANGED outputfile
         ELSE /\ \E f \in Files : outputfile' = f
              /\ UNCHANGED <<pc, result, stdout>>
    /\ UNCHANGED <<verbose, map_zoom, max_duration_ms, map_factor, map_source,
                   gpxfile, mediafile, words, appVars>>

\* default: getopt_long returned '?' (unknown option, or a missing argument)
OptUnknown ==
    /\ ParseFrame
    /\ InLoop
    /\ option' = "?"
    /\ nargs' = nargs + 1
    /\ Return(-1)
    /\ UNCHANGED <<verbose, map_zoom, max_duration_ms, map_factor, map_source,
                   gpxfile, mediafile, outputfile, words, appVars, stdout>>

\* "Check required options": the first missing one, or "ok"
RequiredCheckNoOutput(m, g, o) ==
    IF m = NULL THEN "media"
    ELSE IF g = NULL THEN "gpx"
    ELSE "ok"

RequiredCheck(m, g, o) ==
    IF m = NULL THEN "media"
    ELSE IF g = NULL THEN "gpx"
    ELSE IF o = NULL THEN "output"
    ELSE "ok"

\* the command chosen from argv after optind, or "unknown"
CommandOf(ws) ==
    IF Len(ws) = 1
      THEN IF ws[1] = "sync" THEN CommandSync
           ELSE IF ws[1] = "clear" THEN CommandClear
           ELSE IF ws[1] = "map" THEN CommandMap
           ELSE IF ws[1] = "track" THEN CommandTrack
           ELSE IF ws[1] = "video" THEN CommandVideo
           ELSE "unknown"
      ELSE CommandVideo

Settings == [set |-> TRUE, gpxfile |-> gpxfile, mediafile |-> mediafile,
             outputfile |-> outputfile, map_factor |-> map_factor, map_zoom |-> map_zoom,
             max_duration_ms |-> max_duration_ms, map_source |-> map_source]

\* a variant that selects the command before the required options are checked
AfterOptionsEarlyCommand ==
    /\ ParseFrame
    /\ pc = "getopt"
    /\ option' = "-1"
    /\ LET missing == RequiredCheck(mediafile, gpxfile, outputfile)
           cmd     == CommandOf(words)
       IN  IF cmd = "unknown"
             THEN /\ Say("command unknown")
                  /\ Return(-1)
                  /\ UNCHANGED appVars
           ELSE IF missing # "ok"
             THEN /\ SetCommand(cmd)
                  /\ Say("option '--" \o missing \o "' is required")
                  /\ Return(-1)
                  /\ UNCHANGED <<settings_, nSetSettings>>
           ELSE /\ SetCommand(cmd)
                /\ settings_' = Settings
                /\ nSetSettings' = nSetSettings + 1
                /\ Return(0)
                /\ UNCHANGED stdout
    /\ UNCHANGED <<nargs, verbose, map_zoom, max_duration_ms, map_factor, map_source,
                   gpxfile, mediafile, outputfile, words>>

\* getopt_long returned -1: the required-option checks, the command word,
\* setSettings, return 0
AfterOptions ==
    /\ ParseFrame
    /\ pc = "getopt"
    /\ option' = "-1"
    /\ LET missing == RequiredCheck(mediafile, gpxfile, outputfile)
           cmd     == CommandOf(words)
       IN  IF missing # "ok"
             THEN /\ Say("option '--" \o missing \o "' is required")
                  /\ Return(-1)
                  /\ UNCHANGED appVars
           ELSE IF cmd = "unknown"
             THEN /\ Say("command unknown")
                  /\ Return(-1)
                  /\ UNCHANGED appVars
           ELSE /\ SetCommand(cmd)
                /\ settings_' = Settings
                /\ nSetSettings' = nSetSettings + 1
                /\ Return(0)
                /\ UNCHANGED stdout
    /\ UNCHANGED <<nargs, verbose, map_zoom, max_duration_ms, map_factor, map_source,
                   gpxfile, mediafile, outputfile, words>>

ParseStep ==
    \/ GetoptSkipWord \/ OptHelp \/ OptMapList \/ OptMapFactor \/ OptMapZoom
    \/ OptMapSource \/ OptDuration \/ OptQuiet \/ OptVerbose \/ OptMedia
    \/ OptGpx \/ OptOutput \/ OptUnknown \/ AfterOptions


\* ----------------------------------------------------------------- main()
\* main leaves the other components alone
MainFrame == UNCHANGED <<latVars, timeVars>>

\* result = app.parseCommandLine(argc, argv); if (result < 0) { print_usage; goto exit; }
MainCheckResult ==
    /\ MainFrame
    /\ pc = "parsed"
    /\ IF result < 0
         THEN /\ Say("usage")
              /\ pc' = "exit"
         ELSE /\ pc' = "switch"
              /\ UNCHANGED stdout
    /\ UNCHANGED <<parseLocals, result, appVars, taskVars, evbase, execRan, exitStatus,
                   cacheVars>>

\* a variant in which the clear case lacks its goto and falls into the map case
CaseLabelClearFallsThrough(c) ==
    CASE c = CommandSource -> "case_source"
      [] c = CommandSync   -> "sync_create"
      [] c = CommandClear  -> "map_build"
      [] c = CommandMap    -> "map_build"
      [] c = CommandTrack  -> "case_track"
      [] c = CommandVideo  -> "video_ts_create"

\* switch (app.command()): the case label control jumps to
CaseLabel(c) ==
    CASE c = CommandSource -> "case_source"
      [] c = CommandSync   -> "sync_create"
      [] c = CommandClear  -> "case_clear"
      [] c = CommandMap    -> "map_build"
      [] c = CommandTrack  -> "case_track"
      [] c = CommandVideo  -> "video_ts_create"

\* a variant of the video case that creates and appends the renderer first
SuccRendererFirst(l) ==
    CASE l = "sync_create"           -> "sync_append"
      [] l = "sync_append"           -> "exec"
      [] l = "map_build"             -> "map_append"
      [] l = "map_append"            -> "exec"
      [] l = "video_ts_create"       -> "video_renderer_create"
      [] l = "video_renderer_create" -> "video_renderer_append"
      [] l = "video_renderer_append" -> "video_ts_append"
      [] l = "video_ts_append"       -> "video_map_build"
      [] l = "video_map_build"       -> "video_map_append"
      [] l = "video_map_append"      -> "exec"

\* the statement that follows statement l inside a case of the switch
Succ(l) ==
    CASE l = "sync_create"           -> "sync_append"
      [] l = "sync_append"           -> "exec"
      [] l = "map_build"             -> "map_append"
      [] l = "map_append"            -> "exec"
      [] l = "video_ts_create"       -> "video_ts_append"
      [] l = "video_ts_append"       -> "video_map_build"
      [] l = "video_map_build"       -> "video_map_append"
      [] l = "video_map_append"      -> "video_renderer_create"
      [] l = "video_renderer_create" -> "video_renderer_append"
      [] l = "video_renderer_append" -> "exec"

Switch ==
    /\ MainFrame
    /\ pc = "switch"
    /\ pc' = CaseLabel(command_)
    /\ UNCHANGED <<parseLocals, result, appVars, stdout, taskVars, evbase, execRan,
                   exitStatus, cacheVars>>

\* case CommandSource: print_map_list(name); goto exit;
CaseSource ==
    /\ MainFrame
    /\ pc = "case_source"
    /\ Say("map list")
    /\ pc' = "exit"
    /\ UNCHANGED <<parseLocals, result, appVars, taskVars, evbase, execRan, exitStatus,
                   cacheVars>>

\* case CommandClear: log_notice("Not yet implemented"); goto exit;
CaseClear ==
    /\ MainFrame
    /\ pc = "case_clear"
    /\ Say("Not yet implemented")
    /\ pc' = "exit"
    /\ UNCHANGED <<parseLocals, result, appVars, taskVars, evbase, execRan, exitStatus,
                   cacheVars>>

\* case CommandTrack: log_notice("Not yet implemented"); goto exit;
CaseTrack ==
    /\ MainFrame
    /\ pc = "case_track"
    /\ Say("Not yet implemented")
    /\ pc' = "exit"
    /\ UNCHANGED <<parseLocals, result, appVars, taskVars, evbase, execRan, exitStatus,
                   cacheVars>>

\* t = T::create(...): a new object, the pointer set
New(t) == /\ ptr' = [ptr EXCEPT ![t] = TRUE]
          /\ heap' = [heap EXCEPT ![t] = "live"]

\* timesync = TimeSync::create(app);
CreateTimeSync ==
    /\ MainFrame
    /\ pc \in {"sync_create", "video_ts_create"}
    /\ New("timesync")
    /\ pc' = Succ(pc)
    /\ UNCHANGED <<parseLocals, result, appVars, stdout, deletes, rendererMap, tasks,
                   evbase, execRan, exitStatus, cacheVars>>

\* app.append(timesync);
AppendTimeSync ==
    /\ MainFrame
    /\ pc \in {"sync_append", "video_ts_append"}
    /\ tasks' = Append(tasks, "timesync")
    /\ pc' = Succ(pc)
    /\ UNCHANGED <<parseLocals, result, appVars, stdout, ptr, heap, deletes, rendererMap,
                   evbase, execRan, exitStatus, cacheVars>>

\* map = app.buildMap();
BuildMap ==
    /\ MainFrame
    /\ pc \in {"map_build", "video_map_build"}
    /\ New("map")
    /\ pc' = Succ(pc)
    /\ UNCHANGED <<parseLocals, result, appVars, stdout, deletes, rendererMap, tasks,
                   evbase, execRan, exitStatus, cacheVars>>

\* app.append(map);
AppendMap ==
    /\ MainFrame
    /\ pc \in {"map_append", "video_map_append"}
    /\ tasks' = Append(tasks, "map")
    /\ pc' = Succ(pc)
    /\ UNCHANGED <<parseLocals, result, appVars, stdout, ptr, heap, deletes, rendererMap,
                   evbase, execRan, exitStatus, cacheVars>>

\* renderer = Renderer::create(app, map);
CreateRenderer ==
    /\ MainFrame
    /\ pc = "video_renderer_create"
    /\ New("renderer")
    /\ rendererMap' = IF ptr["map"] THEN "map" ELSE NULL
    /\ pc' = Succ(pc)
    /\ UNCHANGED <<parseLocals, result, appVars, stdout, deletes, tasks,
                   evbase, execRan, exitStatus, cacheVars>>

\* app.append(renderer);
AppendRenderer ==
    /\ MainFrame
    /\ pc = "video_renderer_append"
    /\ tasks' = Append(tasks, "renderer")
    /\ pc' = Succ(pc)
    /\ UNCHANGED <<parseLocals, result, appVars, stdout, ptr, heap, deletes, rendererMap,
                   evbase, execRan, exitStatus, cacheVars>>

\* app.exec(): the event loop is entered
Exec ==
    /\ MainFrame
    /\ pc = "exec"
    /\ execRan' = TRUE
    /\ pc' = "in_exec"
    /\ UNCHANGED <<parseLocals, result, appVars, stdout, taskVars, evbase, exitStatus,
                   cacheVars>>

\* inside the loop the Map task fetches tiles through the tile cache: a hit
\* is served from the store, a miss is fetched and persisted
FetchTile ==
    /\ MainFrame
    /\ pc = "in_exec"
    /\ \E i \in 1..Len(tasks) : tasks[i] = "map"
    /\ \E k \in TileKeys :
         IF k \in cache
           THEN UNCHANGED cacheVars
           ELSE /\ cache' = cache \cup {k}
                /\ fetches' = fetches + 1
    /\ UNCHANGED <<pc, parseLocals, result, appVars, stdout, taskVars, evbase, execRan,
                   exitStatus>>

\* app.exec() returns
ExecReturn ==
    /\ MainFrame
    /\ pc = "in_exec"
    /\ pc' = "exit"
    /\ UNCHANGED <<parseLocals, result, appVars, stdout, taskVars, evbase, execRan,
                   exitStatus, cacheVars>>

\* if (p) delete p;
Delete(t) ==
    IF ptr[t]
      THEN /\ heap' = [heap EXCEPT ![t] = "deleted"]
           /\ deletes' = [deletes EXCEPT ![t] = @ + 1]
      ELSE UNCHANGED <<heap, deletes>>

\* exit: if (map) delete map;
DeleteMap ==
    /\ MainFrame
    /\ pc = "exit"
    /\ Delete("map")
    /\ pc' = "exit_renderer"
    /\ UNCHANGED <<parseLocals, result, appVars, stdout, ptr, rendererMap, tasks,
                   evbase, execRan, exitStatus, cacheVars>>

\* if (renderer) delete renderer;
DeleteRenderer ==
    /\ MainFrame
    /\ pc = "exit_renderer"
    /\ Delete("renderer")
    /\ pc' = "exit_timesync"
    /\ UNCHANGED <<parseLocals, result, appVars, stdout, ptr, rendererMap, tasks,
                   evbase, execRan, exitStatus, cacheVars>>

\* if (timesync) delete timesync;
DeleteTimeSync ==
    /\ MainFrame
    /\ pc = "exit_timesync"
    /\ Delete("timesync")
    /\ pc' = "exit_evbase"
    /\ UNCHANGED <<parseLocals, result, appVars, stdout, ptr, rendererMap, tasks,
                   evbase, execRan, exitStatus, cacheVars>>

\* event_base_free(evbase);
EventBaseFree ==
    /\ MainFrame
    /\ pc = "exit_evbase"
    /\ evbase' = "freed"
    /\ pc' = "exit_call"
    /\ UNCHANGED <<parseLocals, result, appVars, stdout, taskVars, execRan, exitStatus,
                   cacheVars>>

\* exit(EXIT_SUCCESS);
Exit ==
    /\ MainFrame
    /\ pc = "exit_call"
    /\ exitStatus' = EXIT_SUCCESS
    /\ pc' = "exited"
    /\ UNCHANGED <<parseLocals, result, appVars, stdout, taskVars, evbase, execRan,
                   cacheVars>>

MainStep ==
    \/ MainCheckResult \/ Switch \/ CaseSource \/ CaseClear \/ CaseTrack
    \/ CreateTimeSync \/ AppendTimeSync \/ BuildMap \/ AppendMap
    \/ CreateRenderer \/ AppendRenderer \/ Exec \/ FetchTile \/ ExecReturn
    \/ DeleteMap \/ DeleteRenderer \/ DeleteTimeSync \/ EventBaseFree \/ Exit

Next == ParseStep \/ MainStep

Spec == Init /\ [][Next]_vars


\* ------------------------------------------------------ Latitude::validate
\* values are latitudes in tenths of a degree
LatValues == -MaxLat..MaxLat

\* a variant of the range test that also rejects the upper bound
OutOfRangeUpperClosed(value) == (value < LatMin) \/ (value >= LatMax)

\* (value < -90.0) || (value > 90.0)
OutOfRange(value) == (value < LatMin) \/ (value > LatMax)

\* Latitude::validate(report), given what Decimal::validate and convert
\* returned: the result, and the INCORRECT_VALUE reports it made
LatitudeValidate(decimalOk, convertOk, value, hasReport) ==
    IF decimalOk /\ convertOk /\ OutOfRange(value)
      THEN [ok |-> FALSE, reports |-> IF hasReport THEN 1 ELSE 0]
      ELSE [ok |-> decimalOk, reports |-> 0]

\* a Latitude node about to be validated: the outcome of Decimal::validate,
\* of convert(value) and the converted value, and whether a report is passed
LatInit ==
    /\ latPc = "node"
    /\ latDecimalOk \in BOOLEAN
    /\ latConvertOk \in BOOLEAN
    /\ latValue \in LatValues
    /\ latHasReport \in BOOLEAN
    /\ latOk = FALSE
    /\ latReports = 0

Validate ==
    /\ latPc = "node"
    /\ LET r == LatitudeValidate(latDecimalOk, latConvertOk, latValue, latHasReport)
       IN  /\ latOk' = r.ok
           /\ latReports' = r.reports
    /\ latPc' = "validated"
    /\ UNCHANGED <<latDecimalOk, latConvertOk, latValue, latHasReport>>
    /\ UNCHANGED <<mainVars, timeVars>>

LatNext == Validate

\* main and the widget stay as constructed
LatSpecInit == MainStart(CommandConstructed, {}) /\ TimeIdle /\ LatInit

SpecLat == LatSpecInit /\ [][LatNext]_vars

\* ------------------------------------------------------ TimeWidget::render
SecondsPerDay == 86400
SecondsPerHour == 3600
SecondsPerMinute == 60

\* telemetry samples handed to render: GPS time and position
Samples == {[time |-> 7, lat |-> 480], [time |-> 3725, lat |-> 481], [time |-> 86399, lat |-> 482]}
\* the application (camera) clock at the start of the session, and its steps
StartTimes == {0, 3599, 86390}
ClockSteps == {1, 10, 3600}
\* TZ: seconds east of UTC
TzOffsets  == {0, 3600, -18000}
\* widget geometry and label
Geometries == {[x |-> 0, y |-> 0, height |-> 32, padding |-> 2, label |-> "TIME"],
               [x |-> 100, y |-> 50, height |-> 64, padding |-> 4, label |-> "HEURE"]}

\* a variant that formats the sample's GPS time
ClockReadGps(data, clock) == data.time

\* the time_t given to localtime_r: &app_.time()
ClockRead(data, clock) == clock

\* localtime_r: the time of day of t in the local zone
LocalTime(t, tz) ==
    LET s == (t + tz) % SecondsPerDay
    IN  [hour |-> s \div SecondsPerHour,
         min  |-> (s % SecondsPerHour) \div SecondsPerMinute,
         sec  |-> s % SecondsPerMinute]

\* %H, %M, %S: two decimal digits
TwoDigits(n) == <<n \div 10, n % 10>>

\* strftime(s, sizeof(s), "%H:%M:%S", &time)
Strftime(tm) == TwoDigits(tm.hour) \o <<":">> \o TwoDigits(tm.min) \o <<":">> \o TwoDigits(tm.sec)

\* TimeWidget::render(buf, data): the label and the value drawn on the frame
Render(g, data, clock, tz) ==
    LET s == Strftime(LocalTime(ClockRead(data, clock), tz))
    IN  <<[draw |-> "label", x |-> g.x + g.height + g.padding, y |-> g.y, text |-> g.label],
          [draw |-> "value", x |-> g.x + g.height + g.padding, y |-> g.y, text |-> s]>>

TimeInit ==
    /\ appTime \in StartTimes
    /\ tzOffset \in TzOffsets
    /\ geom \in Geometries
    /\ ticks = 0
    /\ frames = 0
    /\ buf = <<>>
    /\ shown = {}

\* the application clock advances between frames
Tick ==
    /\ ticks < MaxTicks
    /\ ticks' = ticks + 1
    /\ \E d \in ClockSteps : appTime' = appTime + d
    /\ UNCHANGED <<tzOffset, geom, frames, buf, shown>>
    /\ UNCHANGED <<mainVars, latVars>>

\* one frame: render draws on the frame buffer; shown records what was drawn
\* for which sample under which clock value
RenderFrame ==
    /\ frames < MaxFrames
    /\ frames' = frames + 1
    /\ \E data \in Samples :
         /\ buf' = Render(geom, data, appTime, tzOffset)
         /\ shown' = shown \cup {[clock |-> appTime, data |-> data, drawn |-> buf']}
    /\ UNCHANGED <<appTime, tzOffset, geom, ticks>>
    /\ UNCHANGED <<mainVars, latVars>>

TimeNext == Tick \/ RenderFrame

\* main and the validator stay as constructed
TimeSpecInit == MainStart(CommandConstructed, {}) /\ LatIdle /\ TimeInit

SpecTime == TimeSpecInit /\ [][TimeNext]_vars


\* ================================================================== claims
AllRequired == mediafile # NULL /\ gpxfile # NULL /\ outputfile # NULL
Printed(m)  == \E i \in 1..Len(stdout) : stdout[i] = m
Created     == {t \in Tasks : heap[t] # "none"}
Appended    == {tasks[i] : i \in 1..Len(tasks)}
IsPrefix(s, t) == Len(s) <= Len(t) /\ \A i \in 1..Len(s) : s[i] = t[i]

\* C1 (SpecLat): once Decimal::validate passed and convert produced v,
\* Latitude::validate returns false for v < -90 or v > 90, recording
\* INCORRECT_VALUE exactly once when a report is supplied, returns true for
\* every v in [-90, 90], and returns the same without the report as with it.
C1_LatitudeRangeRejected ==
    (latPc = "validated" /\ latDecimalOk /\ latConvertOk) =>
        /\ (latValue < LatMin \/ latValue > LatMax) =>
               (~latOk /\ latReports = (IF latHasReport THEN 1 ELSE 0))
        /\ (LatMin <= latValue /\ latValue <= LatMax) => (latOk /\ latReports = 0)
        /\ latOk = LatitudeValidate(latDecimalOk, latConvertOk, latValue, ~latHasReport).ok

\* C1 witness: a latitude just above 90 degrees was rejected and reported once
C1_Witness ==
    /\ latPc = "validated" /\ latDecimalOk /\ latConvertOk
    /\ latValue = LatMax + 1 /\ latHasReport /\ ~latOk /\ latReports = 1

\* C2 as stated (Spec): parseCommandLine returns 0 only if --media, --gpx and
\* --output were all supplied, and returns -1 if any of them is missing.
C2_RequiredInputsOriginal ==
    Parsed => /\ (result = 0 => AllRequired)
              /\ (~AllRequired => result = -1)

\* C2 amended (Spec): parseCommandLine returns 0 only if all three were
\* supplied or the option scan reached --map-list, and returns -1 whenever one
\* of the three is missing and the scan did not reach --map-list.
C2_RequiredInputsUnlessMapList ==
    Parsed => /\ (result = 0 => (AllRequired \/ option = "l"))
              /\ ((~AllRequired /\ option # "l") => result = -1)

\* C2 witness: the scan ended with all three options supplied and 0 returned
C2_Witness == ParseOk /\ option = "-1" /\ AllRequired

\* C3 (Spec): when parseCommandLine fails, the process exits with a non-zero
\* status after printing the usage message.
C3_FailedParseExitsNonZero ==
    (pc = "exited" /\ result < 0) => (Printed("usage") /\ exitStatus # EXIT_SUCCESS)

\* C4 (Spec): after main has run the clear command the on-disk tile store
\* holds no entry.
C4_ClearPurgesTileStore ==
    (pc = "exited" /\ result = 0 /\ command_ = CommandClear) => cache = {}

\* C5 (Spec): for the video command TimeSync is created and appended before
\* Map, Map before Renderer, the Renderer is created only from a Map already
\* built, and the event loop starts only after all three were appended.
C5_VideoPipelineUpstreamFirst ==
    (ParseOk /\ command_ = CommandVideo) =>
        /\ IsPrefix(tasks, <<"timesync", "map", "renderer">>)
        /\ ("map" \in Created => "timesync" \in Appended)
        /\ ("renderer" \in Created => (rendererMap = "map" /\ "map" \in Appended))
        /\ (execRan => tasks = <<"timesync", "map", "renderer">>)

\* C5 witness: the video command reached the event loop
C5_Witness == pc = "in_exec" /\ command_ = CommandVideo /\ Len(tasks) = 3

\* C6 (SpecTime): two renders under the same application clock draw the same
\* label and the same HH:MM:SS value whatever sample each was given.
C6_TimeWidgetShowsCameraTime ==
    \A a, b \in shown : a.clock = b.clock => a.drawn = b.drawn

\* C6 witness: two different samples were rendered under one clock value
C6_Witness == \E a, b \in shown : a.clock = b.clock /\ a.data # b.data

\* C7 (Spec): the event loop is executed if and only if parseCommandLine
\* returned 0 and the command is sync, map or video, with exactly {TimeSync},
\* {Map} and {TimeSync, Map, Renderer} created and appended; otherwise no task
\* is created or appended and the loop never runs.
C7_Stages(c) ==
    CASE c = CommandSync  -> {"timesync"}
      [] c = CommandMap   -> {"map"}
      [] c = CommandVideo -> {"timesync", "map", "renderer"}
      [] OTHER            -> {}

C7_CommandSelectsStages ==
    /\ execRan => (ParseOk /\ command_ \in {CommandSync, CommandMap, CommandVideo}
                   /\ Created = C7_Stages(command_) /\ Appended = C7_Stages(command_))
    /\ (pc = "exited" /\ result = 0 /\ command_ \in {CommandSync, CommandMap, CommandVideo})
           => execRan
    /\ (~ParseOk \/ command_ \in {CommandSource, CommandClear, CommandTrack})
           => (Created = {} /\ tasks = <<>> /\ ~execRan)
    /\ Created \subseteq C7_Stages(command_)

\* C7 witness: a run of the map command went through the event loop to exit
C7_Witness == pc = "exited" /\ execRan /\ command_ = CommandMap

\* C8 (Spec): once the option scan has ended with all required options
\* present, the command is set to X only if the single positional word is X
\* (or to video when there is no word), and any other word list gets -1 with
\* the unknown-command message.
C8_WordCommand(w) ==
    CASE w = "sync"  -> CommandSync
      [] w = "clear" -> CommandClear
      [] w = "map"   -> CommandMap
      [] w = "track" -> CommandTrack
      [] w = "video" -> CommandVideo
      [] OTHER       -> "none"

C8_CommandIsTheNamedWord ==
    (Parsed /\ option = "-1" /\ AllRequired) =>
        /\ result = 0 =>
              \/ (words = <<>> /\ command_ = CommandVideo)
              \/ (Len(words) = 1 /\ command_ = C8_WordCommand(words[1]))
        /\ (words # <<>> /\ ~(Len(words) = 1 /\ words[1] \in CommandWords)) =>
              (result = -1 /\ Printed("command unknown"))

\* C9 (Spec): when parseCommandLine returns -1 neither setCommand nor
\* setSettings has been called and command and settings keep their values;
\* setSettings is called at most once, and only on the path that returns 0
\* after the required-option checks.
C9_FailedParseLeavesAppUnchanged ==
    /\ ParseFailed => /\ nSetCommand = 0 /\ nSetSettings = 0
                      /\ command_ = CommandConstructed /\ settings_ = NoSettings
    /\ nSetSettings <= 1
    /\ nSetSettings = 1 => (ParseOk /\ option = "-1" /\ AllRequired /\ settings_.set)
    /\ (ParseOk /\ option = "-1") => nSetSettings = 1

\* C9 witness: all required options given, unknown command word, -1 returned
C9_Witness == ParseFailed /\ option = "-1" /\ AllRequired /\ Printed("command unknown")

\* C10 (Spec): in the teardown every created task is deleted exactly once,
\* tasks never created are not deleted, the event base is freed only after
\* all tasks are deleted, and the Map given to Renderer::create is not deleted
\* while that Renderer is still live.
C10_TeardownSafe ==
    /\ \A t \in Tasks : deletes[t] <= 1
    /\ pc = "exited" => \A t \in Tasks : deletes[t] = (IF t \in Created THEN 1 ELSE 0)
    /\ evbase = "freed" => \A t \in Tasks : heap[t] # "live"
    /\ ~(heap["map"] = "deleted" /\ heap["renderer"] = "live" /\ rendererMap = "map")

====
